---- MODULE Spec2Model ----
(***************************************************************************)
(* Library statistics engine of hsorter (src/hsorter.py): the stats_cache  *)
(* table of Database, the probe MediaInfo.get_details, the feature         *)
(* extractor, the aggregator and the recompute pass                        *)
(* HSorterWindow.recalculate_statistics.                                   *)
(*                                                                         *)
(* Conventions.  A Python str is a sequence of one-character strings, so   *)
(* that slicing, splitting, digit tests and formatting are computed.  A    *)
(* Python dict is a sequence of <<key, value>> pairs with distinct keys,   *)
(* in insertion order.  The sentinel literal of the source (the Russian    *)
(* word for "unknown") is written in Latin letters.                        *)
(***************************************************************************)
EXTENDS Integers, Sequences, FiniteSets, TLC

\* ------------------------------------------------------------------ bounds
\* Passes started in a behaviour in which the operations of a pass can raise.
MaxPasses == 1
\* Passes started, direct replace/clear calls and catalog edits made in a
\* behaviour in which no operation of a pass raises.
MaxOps == 2

\* ----------------------------------------------------------------- strings
Digits == {"0", "1", "2", "3", "4", "5", "6", "7", "8", "9"}

DigitChar(d) ==
  CASE d = 0 -> "0" [] d = 1 -> "1" [] d = 2 -> "2" [] d = 3 -> "3"
    [] d = 4 -> "4" [] d = 5 -> "5" [] d = 6 -> "6" [] d = 7 -> "7"
    [] d = 8 -> "8" [] d = 9 -> "9"

RECURSIVE NatStr(_)
NatStr(n) == IF n < 10 THEN <<DigitChar(n)>>
             ELSE NatStr(n \div 10) \o <<DigitChar(n % 10)>>

\* str(n) for an int.
Str(n) == IF n < 0 THEN <<"-">> \o NatStr(0 - n) ELSE NatStr(n)

\* str.isdigit(): non-empty and every character a digit.
IsDigit(s) == Len(s) > 0 /\ \A i \in 1..Len(s) : s[i] \in Digits

\* s[:n]
Prefix(s, n) == SubSeq(s, 1, IF Len(s) < n THEN Len(s) ELSE n)

\* The sentinel bucket name, a Cyrillic word: "~c" stands for the Cyrillic
\* letter transliterated c.
Unknown == <<"~N", "~e", "~i", "~z", "~v", "~e", "~s", "~t", "~n", "~o">>

\* The characters of the texts below in code point order (the order of
\* Python's str comparison and of the bytes of their UTF-8 encoding).
Chars ==
  << " ", "+", ",", "-", "/",
     "0", "1", "2", "3", "4", "5", "6", "7", "8", "9", ";",
     "A", "B", "C", "D", "E", "F", "G", "H", "I", "J", "K", "L", "M",
     "N", "O", "P", "Q", "R", "S", "T", "U", "V", "W", "X", "Y", "Z",
     "a", "b", "c", "d", "e", "f", "g", "h", "i", "j", "k", "l", "m",
     "n", "o", "p", "q", "r", "s", "t", "u", "v", "w", "x", "y", "z",
     "~N", "~v", "~e", "~z", "~i", "~n", "~o", "~s", "~t" >>

\* The place of each character in that order.
CharCodes ==
  [c \in {Chars[i] : i \in 1..Len(Chars)} |->
     CHOOSE i \in 1..Len(Chars) : Chars[i] = c]

CharCode(c) == CharCodes[c]

\* Sequence a of numbers sorts before sequence b.
RECURSIVE SeqLess(_, _)
SeqLess(a, b) ==
  IF b = <<>> THEN FALSE
  ELSE IF a = <<>> THEN TRUE
  ELSE IF a[1] # b[1] THEN a[1] < b[1]
  ELSE SeqLess(Tail(a), Tail(b))

\* Python's a < b for str.
StrLess(a, b) ==
  SeqLess([i \in 1..Len(a) |-> CharCode(a[i])], [i \in 1..Len(b) |-> CharCode(b[i])])

\* SQLite's NOCASE: the 26 upper case letters of ASCII compare as their
\* lower case, every other character as itself.
NoCaseCodes ==
  [c \in DOMAIN CharCodes |->
     IF CharCode("A") <= CharCode(c) /\ CharCode(c) <= CharCode("Z")
     THEN CharCode(c) + (CharCode("a") - CharCode("A"))
     ELSE CharCode(c)]

NoCaseCode(c) == NoCaseCodes[c]

\* A collation that compares the characters as they are (BINARY).
BinaryLess(a, b) == StrLess(a, b)

\* a COLLATE NOCASE < b
NoCaseLess(a, b) ==
  SeqLess([i \in 1..Len(a) |-> NoCaseCode(a[i])],
          [i \in 1..Len(b) |-> NoCaseCode(b[i])])

\* ------------------------------------------------------------------- dicts
DictKeys(d) == {d[i][1] : i \in 1..Len(d)}

DictGet(d, k, default) ==
  IF k \in DictKeys(d)
  THEN d[CHOOSE i \in 1..Len(d) : d[i][1] = k][2]
  ELSE default

\* d[k] = v: an existing key keeps its position, a new key goes last.
DictSet(d, k, v) ==
  IF k \in DictKeys(d)
  THEN [i \in 1..Len(d) |-> IF d[i][1] = k THEN <<k, v>> ELSE d[i]]
  ELSE Append(d, <<k, v>>)

\* d[k] = d.get(k, 0) + 1
DictInc(d, k) == DictSet(d, k, DictGet(d, k, 0) + 1)

\* ----------------------------------------------------------- more strings
Max(a, b) == IF a > b THEN a ELSE b

\* str.strip() for the blank character.
RECURSIVE LStrip(_)
LStrip(s) == IF Len(s) > 0 /\ s[1] = " " THEN LStrip(Tail(s)) ELSE s

RECURSIVE RStrip(_)
RStrip(s) == IF Len(s) > 0 /\ s[Len(s)] = " "
             THEN RStrip(SubSeq(s, 1, Len(s) - 1)) ELSE s

Strip(s) == RStrip(LStrip(s))

\* str.replace(old, new) for one-character old and new.
ReplaceChar(s, old, new) ==
  [i \in 1..Len(s) |-> IF s[i] = old THEN new ELSE s[i]]

\* Index of the first occurrence of character c in s, 0 when absent.
FirstIndex(s, c) ==
  IF \E i \in 1..Len(s) : s[i] = c
  THEN CHOOSE i \in 1..Len(s) : s[i] = c /\ \A j \in 1..(i - 1) : s[j] # c
  ELSE 0

\* str.split(sep) for a one-character sep: the list of pieces.
RECURSIVE Split(_, _)
Split(s, sep) ==
  LET i == FirstIndex(s, sep)
  IN IF i = 0 THEN <<s>>
     ELSE <<SubSeq(s, 1, i - 1)>> \o Split(SubSeq(s, i + 1, Len(s)), sep)

\* ------------------------------------------------------------ cache store
\* An order of the calls with the per-title resolution partition ahead of
\* the all-files one.
PassOrderPerTitleFirst ==
  << <<"titles", "by_year", TRUE>>,
     <<"tags", "all", TRUE>>,
     <<"statuses", "all", TRUE>>,
     <<"video", "resolution", FALSE>>,
     <<"video", "resolution", TRUE>>,
     <<"video", "codec", TRUE>>,
     <<"video", "codec", FALSE>>,
     <<"video", "container", TRUE>>,
     <<"video", "container", FALSE>>,
     <<"audio", "codec", TRUE>>,
     <<"audio", "codec", FALSE>>,
     <<"audio", "track_count", TRUE>>,
     <<"audio", "track_count", FALSE>> >>

\* The partitions (category, metric, all_files) a recompute pass writes, in
\* the order of its replace_stats_cache calls.
PassOrder ==
  << <<"titles", "by_year", TRUE>>,
     <<"tags", "all", TRUE>>,
     <<"statuses", "all", TRUE>>,
     <<"video", "resolution", TRUE>>,
     <<"video", "resolution", FALSE>>,
     <<"video", "codec", TRUE>>,
     <<"video", "codec", FALSE>>,
     <<"video", "container", TRUE>>,
     <<"video", "container", FALSE>>,
     <<"audio", "codec", TRUE>>,
     <<"audio", "codec", FALSE>>,
     <<"audio", "track_count", TRUE>>,
     <<"audio", "track_count", FALSE>> >>

Partitions == {PassOrder[i] : i \in 1..Len(PassOrder)}

EmptyCache == [p \in Partitions |-> {}]

\* Outcomes of one replace_stats_cache call: it returns, or sqlite raises at
\* the DELETE, at the INSERT (executemany) or at the commit.
ReplaceOutcomes == {"ok", "fail_delete", "fail_insert", "fail_commit"}

\* A rows list with one row per entry of data, whatever its value.
RECURSIVE InsertRowsNoFilter(_)
InsertRowsNoFilter(data) ==
  IF data = <<>> THEN <<>>
  ELSE <<[bucket |-> data[1][1], value |-> data[1][2]]>>
       \o InsertRowsNoFilter(Tail(data))

\* The rows list built by replace_stats_cache: one (bucket, value) row per
\* entry of data whose value is > 0, in dict order.
RECURSIVE InsertRows(_)
InsertRows(data) ==
  IF data = <<>> THEN <<>>
  ELSE (IF data[1][2] > 0
        THEN <<[bucket |-> data[1][1], value |-> data[1][2]]>>
        ELSE <<>>) \o InsertRows(Tail(data))

\* A DELETE that removes no row.
DeletePartitionNone(cache, p) == cache

\* A DELETE without the test of all_files: WHERE category=? AND metric=?
DeleteBothScopes(cache, p) ==
  [q \in Partitions |->
     IF q[1] = p[1] /\ q[2] = p[2] THEN {} ELSE cache[q]]

\* DELETE FROM stats_cache WHERE category=? AND metric=? AND all_files=?
DeletePartition(cache, p) == [cache EXCEPT ![p] = {}]

\* executemany(INSERT ...) having executed for the first n rows.
InsertPartition(cache, p, rows, n) ==
  [cache EXCEPT ![p] = @ \cup {rows[i] : i \in 1..n}]

\* A replace that adds the new counts to the rows it finds (an upsert
\* without the DELETE).
ReplaceViewAdd(cache, p, data, outcome, n) ==
  LET rows == InsertRows(data)
      m == IF outcome = "fail_insert" THEN n ELSE Len(rows)
      new == {rows[i] : i \in 1..m}
      Old(b) == {r \in cache[p] : r.bucket = b}
      Sum(q) == IF Old(q.bucket) = {} THEN q.value
                ELSE q.value + (CHOOSE r \in Old(q.bucket) : TRUE).value
  IN IF outcome = "fail_delete" THEN cache
     ELSE [cache EXCEPT ![p] =
             {r \in @ : \A q \in new : q.bucket # r.bucket}
             \cup {[bucket |-> q.bucket, value |-> Sum(q)] : q \in new}]

\* The stats_cache table as this connection sees it after a call of
\* replace_stats_cache(p, data) that ended with `outcome`, n rows having been
\* inserted when the INSERT raised.
ReplaceView(cache, p, data, outcome, n) ==
  LET rows == InsertRows(data)
  IN CASE outcome = "fail_delete" -> cache
       [] outcome = "fail_insert" ->
            InsertPartition(DeletePartition(cache, p), p, rows, n)
       [] OTHER ->
            InsertPartition(DeletePartition(cache, p), p, rows, Len(rows))

\* The (outcome, n) pairs replace_stats_cache(p, data) can end with: the
\* INSERT is executed only for a non-empty rows list, and raises at a row
\* with the rows before it inserted.
ReplaceEnds(data) ==
  {<<o, Len(InsertRows(data))>> : o \in ReplaceOutcomes \ {"fail_insert"}}
  \cup {<<"fail_insert", n>> : n \in 0..(Len(InsertRows(data)) - 1)}

\* The set of rows a partition holds once data has replaced it.
RowSet(data) == {InsertRows(data)[i] : i \in 1..Len(InsertRows(data))}

\* get_stats_cache: SELECT bucket, value ... (the ORDER BY is not part of
\* the dict's contents).
GetStatsCache(cache, p) == cache[p]

\* The sequences that hold each element of a set once.
Perms(set) ==
  {q \in [1..Cardinality(set) -> set] : \A a \in set : \E i \in DOMAIN q : q[i] = a}

\* ORDER BY value DESC, bucket COLLATE NOCASE
RowBefore(a, b) ==
  \/ a.value > b.value
  \/ a.value = b.value /\ NoCaseLess(a.bucket, b.bucket)

\* The orders in which a SELECT with that ORDER BY can give the rows: a
\* row comes first when no other row is before it; rows the ORDER BY does
\* not tell apart come in any order.
RECURSIVE RowsInOrder(_)
RowsInOrder(rows) ==
  IF rows = {} THEN {<<>>}
  ELSE UNION {{<<r>> \o q : q \in RowsInOrder(rows \ {r})} :
                r \in {a \in rows : \A b \in rows : ~RowBefore(b, a)}}

\* The (bucket, value) items of the dict get_stats_cache returns, in the
\* order of the SELECT.
StatsItems(cache, p) == RowsInOrder(cache[p])

\* sorted(items, key=lambda i: i[0]): the items by their key, the keys of
\* a dict being distinct.
RECURSIVE ItemsByKey(_)
ItemsByKey(rows) ==
  IF rows = {} THEN {<<>>}
  ELSE UNION {{<<r>> \o q : q \in ItemsByKey(rows \ {r})} :
                r \in {a \in rows :
                         \A b \in rows \ {a} : StrLess(a.bucket, b.bucket)}}

\* _stats_titles_by_year: dict(sorted(data.items(), key=lambda i: i[0]))
StatsTitlesByYear(cache) == ItemsByKey(cache[<<"titles", "by_year", TRUE>>])

\* _stats_tags
StatsTags(cache) == StatsItems(cache, <<"tags", "all", TRUE>>)

\* _stats_statuses
StatsStatuses(cache) == StatsItems(cache, <<"statuses", "all", TRUE>>)

\* _stats_video
StatsVideo(cache, metric, all_files) == StatsItems(cache, <<"video", metric, all_files>>)

\* _stats_audio
StatsAudio(cache, metric, all_files) == StatsItems(cache, <<"audio", metric, all_files>>)

\* What the accessor of partition p can return.
StatsOf(cache, p) ==
  CASE p[1] = "titles" -> StatsTitlesByYear(cache)
    [] p[1] = "tags" -> StatsTags(cache)
    [] p[1] = "statuses" -> StatsStatuses(cache)
    [] p[1] = "video" -> StatsVideo(cache, p[2], p[3])
    [] p[1] = "audio" -> StatsAudio(cache, p[2], p[3])

\* -------------------------------------------------- catalog aggregates
\* The code tests created_at, year_start and tags by truth value only, so
\* NULL is written as the falsy value of the column's type: <<>> for a text
\* column, 0 for year_start.

\* A year taken from created_at alone.
TitleYearNoFallback(row) ==
  LET year == IF row.created_at # <<>>
              THEN Prefix(row.created_at, 4) ELSE <<>>
  IN IF year = <<>> \/ ~IsDigit(year) THEN Unknown ELSE year

\* _compute_titles_by_year: rows is the titles table.
TitleYear(row) ==
  LET year == IF row.created_at # <<>>
              THEN Prefix(row.created_at, 4) ELSE <<>>
  IN IF year = <<>> \/ ~IsDigit(year)
     THEN (IF row.year_start # 0 THEN Str(row.year_start) ELSE Unknown)
     ELSE year

RECURSIVE TitlesByYearFrom(_, _)
TitlesByYearFrom(rows, data) ==
  IF rows = <<>> THEN data
  ELSE TitlesByYearFrom(Tail(rows), DictInc(data, TitleYear(rows[1])))

ComputeTitlesByYear(rows) == TitlesByYearFrom(rows, <<>>)

\* _compute_tags: tags split on "," and ";", stripped, empty pieces dropped.
RECURSIVE StripAll(_)
StripAll(parts) ==
  IF parts = <<>> THEN <<>>
  ELSE (IF Strip(parts[1]) # <<>> THEN <<Strip(parts[1])>> ELSE <<>>)
       \o StripAll(Tail(parts))

TagParts(tags) == StripAll(Split(ReplaceChar(tags, ",", ";"), ";"))

RECURSIVE IncAll(_, _)
IncAll(data, keys) ==
  IF keys = <<>> THEN data ELSE IncAll(DictInc(data, keys[1]), Tail(keys))

RECURSIVE TagsFrom(_, _)
TagsFrom(rows, data) ==
  IF rows = <<>> THEN data
  ELSE TagsFrom(Tail(rows), IncAll(data, TagParts(rows[1].tags)))

ComputeTags(rows) == TagsFrom(rows, <<>>)

\* _compute_statuses: status_json is a record [valid, obj]; valid = FALSE is
\* text json.loads rejects (JSONDecodeError, status = {}); obj is the decoded
\* dict of <<name, enabled>> pairs.
RECURSIVE EnabledKeys(_)
EnabledKeys(status) ==
  IF status = <<>> THEN <<>>
  ELSE (IF status[1][2] THEN <<status[1][1]>> ELSE <<>>)
       \o EnabledKeys(Tail(status))

RECURSIVE StatusesFrom(_, _)
StatusesFrom(rows, data) ==
  IF rows = <<>> THEN data
  ELSE LET sj == rows[1].status_json
           status == IF sj.valid THEN sj.obj ELSE <<>>
       IN StatusesFrom(Tail(rows), IncAll(data, EnabledKeys(status)))

ComputeStatuses(rows) == StatusesFrom(rows, <<>>)

\* ------------------------------------------------------------------ probe
\* What the two tools do for one file is the environment's choice:
\*   lib.st: "import_error" (pymediainfo not installed), "parse_error"
\*           (PyMediaInfo.parse raises), "ok" (lib.tracks);
\*   cli.st: "not_found" (FileNotFoundError: no mediainfo binary),
\*           "os_error" (another OSError on launch), "undecodable" (output
\*           that is not text: UnicodeDecodeError), "nonzero" (exit code),
\*           "bad_json" (JSONDecodeError), "bad_shape" (JSON whose "media"
\*           is no object or whose tracks are no objects), "ok" (cli.tracks).
\* A track is [type, format, width, height]; width and height are written as
\* the text "{...}" formatting gives them, <<>> for None, 0 and "".

\* _details_from_pymediainfo: {} (no data) or {"tracks": [...]}.
DetailsFromPymediainfo(env) ==
  IF env.lib.st = "ok"
  THEN [raised |-> FALSE, data |-> TRUE, tracks |-> env.lib.tracks]
  ELSE [raised |-> FALSE, data |-> FALSE, tracks |-> <<>>]

\* _details_from_cli: only FileNotFoundError and JSONDecodeError are caught;
\* a non-zero exit code gives {}; any other exception leaves the function.
DetailsFromCli(env) ==
  CASE env.cli.st = "ok" ->
         [raised |-> FALSE, data |-> TRUE, tracks |-> env.cli.tracks]
    [] env.cli.st \in {"not_found", "nonzero", "bad_json"} ->
         [raised |-> FALSE, data |-> FALSE, tracks |-> <<>>]
    [] OTHER ->
         [raised |-> TRUE, data |-> FALSE, tracks |-> <<>>]

\* MediaInfo.get_details: the library's answer when it is a non-empty dict,
\* else the command-line tool's.  libInvoked: PyMediaInfo.parse was called;
\* cliInvoked: subprocess.run was called.
GetDetails(env) ==
  LET lib == DetailsFromPymediainfo(env)
      cli == DetailsFromCli(env)
  IN IF lib.data
     THEN [raised |-> FALSE, tracks |-> lib.tracks,
           libInvoked |-> TRUE, cliInvoked |-> FALSE]
     ELSE [raised |-> cli.raised, tracks |-> cli.tracks,
           libInvoked |-> env.lib.st # "import_error", cliInvoked |-> TRUE]

\* ------------------------------------------------------ feature extractor
\* The tracks of a type, the last one first.
RECURSIVE TracksOfTypeLastFirst(_, _)
TracksOfTypeLastFirst(tracks, type) ==
  IF tracks = <<>> THEN <<>>
  ELSE TracksOfTypeLastFirst(Tail(tracks), type)
       \o (IF tracks[1].type = type THEN <<tracks[1]>> ELSE <<>>)

\* [t for t in details.get("tracks", []) if t.get("type") == type]
RECURSIVE TracksOfType(_, _)
TracksOfType(tracks, type) ==
  IF tracks = <<>> THEN <<>>
  ELSE (IF tracks[1].type = type THEN <<tracks[1]>> ELSE <<>>)
       \o TracksOfType(Tail(tracks), type)

\* A feature field left as it is found.
OrNothing(x) == x

\* x or "Neizvestno"
OrUnknown(x) == IF x = <<>> THEN Unknown ELSE x

\* _video_feature, given the tracks get_details returned.
VideoFeature(tracks) ==
  LET video_tracks == TracksOfType(tracks, "Video")
      audio_tracks == TracksOfType(tracks, "Audio")
      general_tracks == TracksOfType(tracks, "General")
      hasV == video_tracks # <<>>
      hasG == general_tracks # <<>>
      resolution ==
        IF hasV /\ video_tracks[1].width # <<>> /\ video_tracks[1].height # <<>>
        THEN video_tracks[1].width \o <<"x">> \o video_tracks[1].height
        ELSE <<>>
  IN [resolution |-> OrUnknown(resolution),
      codec |-> OrUnknown(IF hasV THEN video_tracks[1].format ELSE <<>>),
      container |-> OrUnknown(IF hasG THEN general_tracks[1].format ELSE <<>>),
      audio_codec |->
        OrUnknown(IF audio_tracks # <<>> THEN audio_tracks[1].format ELSE <<>>),
      audio_track_count |-> Str(Len(audio_tracks))]

\* -------------------------------------------------------------- aggregator
\* A feature item is the feature record plus title_id.
Metric(item, metric) ==
  CASE metric = "resolution" -> item.resolution
    [] metric = "codec" -> item.codec
    [] metric = "container" -> item.container
    [] metric = "audio_codec" -> item.audio_codec
    [] metric = "audio_track_count" -> item.audio_track_count

\* An insertion that puts an item before the items of equal count.
RECURSIVE InsertDescFront(_, _)
InsertDescFront(sorted, item) ==
  IF sorted = <<>> THEN <<item>>
  ELSE IF sorted[1][2] > item[2]
       THEN <<sorted[1]>> \o InsertDescFront(Tail(sorted), item)
       ELSE <<item>> \o sorted

\* sorted(items, key=lambda i: i[1], reverse=True): a stable sort, so items
\* of equal count keep their dict order.
RECURSIVE InsertDesc(_, _)
InsertDesc(sorted, item) ==
  IF sorted = <<>> THEN <<item>>
  ELSE IF sorted[1][2] >= item[2]
       THEN <<sorted[1]>> \o InsertDesc(Tail(sorted), item)
       ELSE <<item>> \o sorted

RECURSIVE SortedDescFrom(_, _)
SortedDescFrom(items, sorted) ==
  IF items = <<>> THEN sorted
  ELSE SortedDescFrom(Tail(items), InsertDesc(sorted, items[1]))

SortedDesc(items) == SortedDescFrom(items, <<>>)

\* int(text): optional blanks around, an optional sign, then digits.
IsIntText(t) ==
  LET u == Strip(t)
      body == IF Len(u) > 0 /\ u[1] \in {"+", "-"} THEN Tail(u) ELSE u
  IN IsDigit(body)

DigitVal(c) == CHOOSE d \in 0..9 : DigitChar(d) = c

RECURSIVE NatVal(_)
NatVal(ds) == IF ds = <<>> THEN 0
              ELSE NatVal(SubSeq(ds, 1, Len(ds) - 1)) * 10 + DigitVal(ds[Len(ds)])

IntVal(t) ==
  LET u == Strip(t)
  IN IF u[1] = "-" THEN 0 - NatVal(Tail(u))
     ELSE IF u[1] = "+" THEN NatVal(Tail(u)) ELSE NatVal(u)

\* str.lower() on the letter that matters to the split.
Lower(s) == ReplaceChar(s, "X", "x")

\* res_score
ResScore(value) ==
  IF FirstIndex(value, "x") # 0
  THEN LET low == Lower(value)
           i == FirstIndex(low, "x")
           w == SubSeq(low, 1, i - 1)
           h == SubSeq(low, i + 1, Len(low))
       IN IF IsIntText(w) /\ IsIntText(h) THEN IntVal(w) * IntVal(h) ELSE 0 - 1
  ELSE 0 - 1

\* A choice that takes the first candidate whatever its score.
MaxByFirst(candidates) == candidates[1]

\* max(candidates, key=res_score): the first candidate of maximal score.
MaxByScore(candidates) ==
  LET i == CHOOSE i \in 1..Len(candidates) :
             /\ \A j \in 1..Len(candidates) :
                  ResScore(candidates[j]) <= ResScore(candidates[i])
             /\ \A j \in 1..(i - 1) :
                  ResScore(candidates[j]) < ResScore(candidates[i])
  IN candidates[i]

\* A tally that records each value once, however many items have it.
RECURSIVE CountAllOnce(_, _, _)
CountAllOnce(features, metric, data) ==
  IF features = <<>> THEN data
  ELSE CountAllOnce(Tail(features), metric,
                    DictSet(data, Metric(features[1], metric), 1))

\* The all_files branch before sorting: one count per feature item.
RECURSIVE CountAll(_, _, _)
CountAll(features, metric, data) ==
  IF features = <<>> THEN data
  ELSE CountAll(Tail(features), metric, DictInc(data, Metric(features[1], metric)))

\* grouped: a dict title_id -> (dict value -> count), titles in first-seen
\* order.
RECURSIVE Grouped(_, _, _)
Grouped(features, metric, grouped) ==
  IF features = <<>> THEN grouped
  ELSE LET tid == features[1].title_id
           key == Metric(features[1], metric)
           counts == DictGet(grouped, tid, <<>>)
       IN Grouped(Tail(features), metric,
                  DictSet(grouped, tid, DictInc(counts, key)))

\* order[tid]: the title's values in file order.
RECURSIVE OrderOf(_, _, _)
OrderOf(features, metric, tid) ==
  IF features = <<>> THEN <<>>
  ELSE (IF features[1].title_id = tid
        THEN <<Metric(features[1], metric)>> ELSE <<>>)
       \o OrderOf(Tail(features), metric, tid)

MaxCount(counts) ==
  CHOOSE m \in {counts[i][2] : i \in 1..Len(counts)} :
    \A i \in 1..Len(counts) : counts[i][2] <= m

RECURSIVE Candidates(_, _)
Candidates(counts, max_count) ==
  IF counts = <<>> THEN <<>>
  ELSE (IF counts[1][2] = max_count THEN <<counts[1][1]>> ELSE <<>>)
       \o Candidates(Tail(counts), max_count)

\* The first key of order[tid] that is a candidate.
FirstInOrder(order, candidates) ==
  LET cs == {candidates[i] : i \in 1..Len(candidates)}
      i == CHOOSE i \in 1..Len(order) :
             order[i] \in cs /\ \A j \in 1..(i - 1) : order[j] \notin cs
  IN order[i]

\* A vote that falls back to the sentinel when a title's values tie.
ChoiceUnknownOnTie(features, metric, tid, counts) ==
  LET candidates == Candidates(counts, MaxCount(counts))
  IN IF Len(candidates) > 1 THEN Unknown
     ELSE candidates[1]

\* The value a title votes for.
Choice(features, metric, tid, counts) ==
  LET candidates == Candidates(counts, MaxCount(counts))
  IN IF metric = "resolution" THEN MaxByScore(candidates)
     ELSE FirstInOrder(OrderOf(features, metric, tid), candidates)

RECURSIVE Votes(_, _, _, _)
Votes(features, metric, grouped, out) ==
  IF grouped = <<>> THEN out
  ELSE Votes(features, metric, Tail(grouped),
             DictInc(out, Choice(features, metric, grouped[1][1], grouped[1][2])))

\* _aggregate_video_stats
AggregateVideoStats(features, metric, all_files) ==
  IF all_files
  THEN SortedDesc(CountAll(features, metric, <<>>))
  ELSE SortedDesc(Votes(features, metric, Grouped(features, metric, <<>>), <<>>))

\* ---------------------------------------------------------------- catalogs
\* Text values used by the catalogs and the probe outcomes below.
Created2021 == <<"2", "0", "2", "1", "-", "0", "5", "-", "0", "1">>
CreatedBad == <<"n", "/", "a">>
TagsAB == <<"a", ",", " ", "b", ";">>
TagsB == <<" ", "b">>
StFull == <<"f", "u", "l", "l">>
StHardsub == <<"h", "a", "r", "d", "s", "u", "b">>
Matroska == <<"M", "a", "t", "r", "o", "s", "k", "a">>
Mpeg4 == <<"M", "P", "E", "G", "-", "4">>
Hevc == <<"H", "E", "V", "C">>
Avc == <<"A", "V", "C">>
Aac == <<"A", "A", "C">>
Ac3 == <<"A", "C", "-", "3">>

TitleRow(id, created_at, year_start, tags, status_json) ==
  [id |-> id, created_at |-> created_at, year_start |-> year_start,
   tags |-> tags, status_json |-> status_json]

MediaRow(id, title_id, media_type, sort_order) ==
  [id |-> id, title_id |-> title_id, media_type |-> media_type,
   sort_order |-> sort_order]

\* The libraries a behaviour can start from (the database file the
\* application opens): an empty one, one title owning two video files, and
\* two titles with one video file each next to a title without files.
Catalogs ==
  { [titles |-> <<>>, media |-> <<>>],
    [titles |->
       << TitleRow(1, Created2021, 1999, TagsAB,
                   [valid |-> TRUE,
                    obj |-> << <<StFull, TRUE>>, <<StHardsub, FALSE>> >>]),
          TitleRow(2, <<>>, 0, TagsB, [valid |-> FALSE, obj |-> <<>>]) >>,
     media |->
       << MediaRow(1, 1, "video", 2), MediaRow(2, 1, "video", 1),
          MediaRow(3, 2, "image", 1) >>],
    [titles |->
       << TitleRow(1, CreatedBad, 2005, TagsB,
                   [valid |-> TRUE, obj |-> << <<StFull, TRUE>> >>]),
          TitleRow(2, Created2021, 0, <<>>,
                   [valid |-> TRUE, obj |-> << <<StFull, TRUE>> >>]),
          TitleRow(3, <<>>, 2021, TagsAB, [valid |-> TRUE, obj |-> <<>>]) >>,
     media |->
       << MediaRow(1, 2, "video", 1), MediaRow(2, 1, "video", 1) >>] }

\* An order by title_id and id that ignores sort_order.
MediaBeforeById(a, b) ==
  \/ a.title_id < b.title_id
  \/ a.title_id = b.title_id /\ a.id < b.id

\* SELECT ... FROM media WHERE media_type='video'
\*   ORDER BY title_id, sort_order, id
MediaBefore(a, b) ==
  \/ a.title_id < b.title_id
  \/ a.title_id = b.title_id /\ a.sort_order < b.sort_order
  \/ a.title_id = b.title_id /\ a.sort_order = b.sort_order /\ a.id < b.id

RECURSIVE OrderedRows(_)
OrderedRows(set) ==
  IF set = {} THEN <<>>
  ELSE LET first == CHOOSE a \in set : \A b \in set \ {a} : MediaBefore(a, b)
       IN <<first>> \o OrderedRows(set \ {first})

VideoRows(media) ==
  OrderedRows({media[i] : i \in {j \in 1..Len(media) :
                                   media[j].media_type = "video"}})

\* --------------------------------------------------------- probe outcomes
Track(type, format, width, height) ==
  [type |-> type, format |-> format, width |-> width, height |-> height]

\* A Matroska file: HEVC 1920x1080 with two audio tracks.
TracksFull ==
  << Track("General", Matroska, <<>>, <<>>),
     Track("Video", Hevc, Str(1920), Str(1080)),
     Track("Audio", Aac, <<>>, <<>>),
     Track("Audio", Ac3, <<>>, <<>>) >>

\* An MPEG-4 file: AVC 1280x720 without audio.
TracksMute ==
  << Track("General", Mpeg4, <<>>, <<>>),
     Track("Video", Avc, Str(1280), Str(720)) >>

\* A file whose video track reports a width that is no number.
TracksOdd ==
  << Track("General", Matroska, <<>>, <<>>),
     Track("Video", Avc, <<"W">>, Str(7)),
     Track("Audio", Aac, <<>>, <<>>) >>

LibOutcomes ==
  { [st |-> "import_error", tracks |-> <<>>],
    [st |-> "parse_error", tracks |-> <<>>],
    [st |-> "ok", tracks |-> <<>>],
    [st |-> "ok", tracks |-> TracksFull] }

CliOutcomes ==
  { [st |-> f, tracks |-> <<>>] :
      f \in {"not_found", "os_error", "undecodable", "nonzero", "bad_json",
             "bad_shape"} }
  \cup { [st |-> "ok", tracks |-> <<>>], [st |-> "ok", tracks |-> TracksFull] }

\* What the environment can answer for one path; a directory has no tracks.
ProbeEnvs ==
  { e \in [isdir : BOOLEAN, lib : LibOutcomes, cli : CliOutcomes] :
      e.isdir => e.lib.tracks = <<>> /\ e.cli.tracks = <<>> }

\* ------------------------------------------------------------------ state
VARIABLES
  titles,         \* the titles table
  media,          \* the media table
  faulty,         \* the environment: operations of a pass can raise
  sqlite,         \* the SQLite library and its sqlite_sequence table:
                  \* [foreign_keys, seq_titles, seq_media]
  conn,           \* what self.conn sees: [cache, updated_at]
  disk,           \* what is committed to the database file
  pc,             \* where recalculate_statistics stands
  idx,            \* files probed (stage 4) / index in PassOrder of the next replace
  features,       \* the features list of the pass
  done,           \* the done counter of the pass
  shown,          \* the last progress event <<current_done, total, n>>, the
                  \* n-th of its pass
  closeSensitive, \* the dialog's close button is enabled
  outcome,        \* "none", "ok", "error": how the last pass ended
  errKind,        \* what raised: "none", "catalog", "persist", "probe"
  probe,          \* the get_details call of the file being analysed, with
                  \* how the library (lib) and the command run (cli) ended
  pre,            \* stats_cache as self.conn saw it when the pass started
  written,        \* partitions the pass has replaced
  trackless,      \* positions in features of the files probed without tracks
  probed,         \* the ids of the media rows probed, in the order of features
  last,           \* features and cache of the latest successful pass
  ops             \* passes started, direct store calls and catalog edits made

vars == <<titles, media, faulty, sqlite, conn, disk, pc, idx, features, done,
          shown,
          closeSensitive, outcome, errKind, probe, pre, written,
          trackless, probed, last, ops>>

envVars == <<titles, media, faulty, sqlite>>
passVars == <<pc, idx, features, done, shown, closeSensitive, outcome,
              errKind, probe, pre, written, trackless,
              probed>>

\* total_steps
TotalSteps == 7

NoProbe == [called |-> FALSE, isdir |-> FALSE, libInvoked |-> FALSE,
            cliInvoked |-> FALSE, raised |-> FALSE, tracks |-> <<>>]

NoLast == [valid |-> FALSE, features |-> <<>>, cache |-> EmptyCache]

\* The metric name _aggregate_video_stats is given for a partition.
FeatureMetric(p) ==
  IF p[1] = "audio"
  THEN (IF p[2] = "codec" THEN "audio_codec" ELSE "audio_track_count")
  ELSE p[2]

\* The data the pass hands to replace_stats_cache for PassOrder[i].
PassData(i, ts, fs) ==
  CASE i = 1 -> ComputeTitlesByYear(ts)
    [] i = 2 -> ComputeTags(ts)
    [] i = 3 -> ComputeStatuses(ts)
    [] OTHER -> AggregateVideoStats(fs, FeatureMetric(PassOrder[i]), PassOrder[i][3])

\* The library of an earlier session: one title with one file of two audio
\* tracks and one file without tracks.
OldTitles ==
  << TitleRow(1, <<"1", "9", "8", "4">>, 0, <<"o", "l", "d">>,
              [valid |-> TRUE, obj |-> << <<StHardsub, TRUE>> >>]) >>

OldFeatures ==
  << [title_id |-> 1] @@ VideoFeature(TracksMute),
     [title_id |-> 1] @@ VideoFeature(TracksMute),
     [title_id |-> 1] @@ VideoFeature(<<>>) >>

\* stats_cache as a successful pass of that session left it.
OldCache ==
  [p \in Partitions |->
     RowSet(PassData(CHOOSE i \in 1..Len(PassOrder) : PassOrder[i] = p,
                     OldTitles, OldFeatures))]

\* Database.__init__ on a database file: one of the catalogs, a stats_cache
\* that is empty or was filled by a pass of an earlier session; no pass has
\* run in this one.  sqlite3.connect leaves foreign key enforcement as the
\* SQLite library was built, which is off unless it was compiled with
\* SQLITE_DEFAULT_FOREIGN_KEYS=1; no PRAGMA foreign_keys is ever executed.
Init ==
  /\ \E c \in Catalogs :
       /\ titles = c.titles
       /\ media = c.media
       /\ sqlite = [foreign_keys |-> FALSE, seq_titles |-> Len(c.titles),
                    seq_media |-> Len(c.media)]
  /\ faulty \in BOOLEAN
  /\ \E c \in {EmptyCache, OldCache} : conn = [cache |-> c, updated_at |-> 0]
  /\ disk = conn
  /\ pc = "idle"
  /\ idx = 0
  /\ features = <<>>
  /\ done = 0
  /\ shown = <<0, TotalSteps, 0>>
  /\ closeSensitive = TRUE
  /\ outcome = "none"
  /\ errKind = "none"
  /\ probe = NoProbe
  /\ pre = EmptyCache
  /\ written = 0
  /\ trackless = {}
  /\ probed = <<>>
  /\ last = NoLast
  /\ ops = 0

\* ------------------------------------------------------- the recompute pass
\* self.conn after replace_stats_cache(p, data) ended with e = <<outcome, n>>.
ConnAfterReplace(p, data, e) ==
  [conn EXCEPT !.cache = ReplaceView(conn.cache, p, data, e[1], e[2])]

\* A replace_stats_cache without its commit.
ReplaceNoCommit(p, data, e) ==
  /\ conn' = [conn EXCEPT !.cache = ReplaceView(conn.cache, p, data, e[1], e[2])]
  /\ disk' = disk

\* replace_stats_cache(p, data) ending with e; its commit makes all the
\* connection sees the contents of the file.
Replace(p, data, e) ==
  /\ conn' = ConnAfterReplace(p, data, e)
  /\ disk' = IF e[1] = "ok" THEN conn' ELSE disk

\* The ends of a replace_stats_cache call made by the pass.
PassEnds(data) ==
  IF faulty THEN ReplaceEnds(data) ELSE {<<"ok", Len(InsertRows(data))>>}

\* An except clause without the finally clause.
FailNoFinally(kind) ==
  /\ pc' = "done"
  /\ outcome' = "error"
  /\ errKind' = kind
  /\ UNCHANGED <<idx, features, done, shown, closeSensitive, pre, written,
                 trackless, probed>>

\* except Exception: ... finally: close_button.set_sensitive(True)
Fail(kind) ==
  /\ pc' = "done"
  /\ outcome' = "error"
  /\ errKind' = kind
  /\ closeSensitive' = TRUE
  /\ UNCHANGED <<idx, features, done, shown, pre, written, trackless,
               probed>>

\* A set_progress that reports the steps left instead of the steps done.
SetProgressLeft(current_done, extra_total) ==
  shown' = <<TotalSteps + extra_total - current_done, TotalSteps + extra_total,
             IF pc = "idle" THEN 1 ELSE shown[3] + 1>>

\* set_progress(message, current_done, extra_total); the first event of a
\* pass is the one made while no pass is running yet.
SetProgress(current_done, extra_total) ==
  shown' = <<current_done, TotalSteps + extra_total,
             IF pc = "idle" THEN 1 ELSE shown[3] + 1>>

\* A pass that starts by emptying the whole table.
StartPassClearing ==
  /\ pc = "idle"
  /\ ops < (IF faulty THEN MaxPasses ELSE MaxOps)
  /\ ops' = ops + 1
  /\ pc' = "titles"
  /\ closeSensitive' = FALSE
  /\ done' = 0
  /\ SetProgress(0, 0)
  /\ idx' = 0
  /\ features' = <<>>
  /\ outcome' = "none"
  /\ errKind' = "none"
  /\ probe' = NoProbe
  /\ pre' = conn.cache
  /\ written' = 0
  /\ trackless' = {}
  /\ probed' = <<>>
  /\ conn' = [conn EXCEPT !.cache = EmptyCache]
  /\ UNCHANGED <<envVars, disk, last>>

\* A pass that starts by recording its time.
StartPassStamping ==
  /\ pc = "idle"
  /\ ops < (IF faulty THEN MaxPasses ELSE MaxOps)
  /\ ops' = ops + 1
  /\ pc' = "titles"
  /\ closeSensitive' = FALSE
  /\ done' = 0
  /\ SetProgress(0, 0)
  /\ idx' = 0
  /\ features' = <<>>
  /\ outcome' = "none"
  /\ errKind' = "none"
  /\ probe' = NoProbe
  /\ pre' = conn.cache
  /\ written' = 0
  /\ trackless' = {}
  /\ probed' = <<>>
  /\ conn' = [conn EXCEPT !.updated_at = ops + 1]
  /\ UNCHANGED <<envVars, disk, last>>

\* The click on the recalculate button: the dialog is built with its close
\* button disabled and the first progress event is shown.
StartPass ==
  /\ pc = "idle"
  /\ ops < (IF faulty THEN MaxPasses ELSE MaxOps)
  /\ ops' = ops + 1
  /\ pc' = "titles"
  /\ closeSensitive' = FALSE
  /\ done' = 0
  /\ SetProgress(0, 0)
  /\ idx' = 0
  /\ features' = <<>>
  /\ outcome' = "none"
  /\ errKind' = "none"
  /\ probe' = NoProbe
  /\ pre' = conn.cache
  /\ written' = 0
  /\ trackless' = {}
  /\ probed' = <<>>
  /\ UNCHANGED <<envVars, conn, disk, last>>

\* Stages 1-3: compute a catalog aggregate (the SELECT can raise), replace
\* its partition, report.
CatalogStage(i, here, next) ==
  /\ pc = here
  /\ \/ /\ faulty
        /\ Fail("catalog")
        /\ UNCHANGED <<conn, disk>>
     \/ \E e \in PassEnds(PassData(i, titles, features)) :
          /\ Replace(PassOrder[i], PassData(i, titles, features), e)
          /\ IF e[1] = "ok"
             THEN /\ done' = done + 1
                  /\ SetProgress(done + 1, 0)
                  /\ written' = written + 1
                  /\ pc' = next
                  /\ UNCHANGED <<idx, features, closeSensitive, outcome,
                                 errKind, pre, trackless, probed>>
             ELSE Fail("persist")
  /\ UNCHANGED <<envVars, probe, last, ops>>

TitlesStage == CatalogStage(1, "titles", "tags")

TagsStage == CatalogStage(2, "tags", "statuses")

StatusesStage == CatalogStage(3, "statuses", "enum")

\* Stage 4 begins: the video media rows are read.
Enumerate ==
  /\ pc = "enum"
  /\ \/ /\ faulty
        /\ Fail("catalog")
     \/ /\ pc' = "probe"
        /\ idx' = 0
        /\ features' = <<>>
        /\ UNCHANGED <<done, shown, closeSensitive, outcome, errKind, pre,
                       written, trackless, probed>>
  /\ UNCHANGED <<envVars, conn, disk, probe, last, ops>>

\* One turn of the loop over rows: _video_feature(row["path"]), then a
\* progress event.
ProbeRow(traced) ==
  /\ pc = "probe"
  /\ idx < Len(VideoRows(media))
  /\ \E env \in ProbeEnvs :
       LET d == GetDetails(env)
           row == VideoRows(media)[idx + 1]
           total_video == Len(VideoRows(media))
           call == [called |-> TRUE, isdir |-> env.isdir,
                    libInvoked |-> d.libInvoked,
                    cliInvoked |-> d.cliInvoked,
                    raised |-> d.raised, tracks |-> d.tracks]
       IN /\ faulty \/ ~d.raised
          /\ probe' = IF traced
                      THEN call @@ [lib |-> env.lib.st,
                                    cli |-> IF d.cliInvoked THEN env.cli.st
                                            ELSE "none"]
                      ELSE call
          /\ IF d.raised
             THEN Fail("probe")
             ELSE /\ features' =
                       Append(features,
                              [title_id |-> row.title_id] @@ VideoFeature(d.tracks))
                  /\ idx' = idx + 1
                  /\ trackless' = IF d.tracks = <<>>
                                  THEN trackless \cup {idx + 1} ELSE trackless
                  /\ probed' = Append(probed, row.id)
                  /\ SetProgress(done + idx + 1, total_video)
                  /\ UNCHANGED <<pc, done, closeSensitive, outcome, errKind,
                                 pre, written>>
  /\ UNCHANGED <<envVars, conn, disk, last, ops>>

ProbeFile == ProbeRow(FALSE)

\* The same turn, the record of the call keeping what the library and the
\* command-line tool answered.
ProbeFileTraced == ProbeRow(TRUE)

\* The loop is over: done += total_video and the report before stage 5.
FinishProbe ==
  /\ pc = "probe"
  /\ idx = Len(VideoRows(media))
  /\ done' = done + Len(VideoRows(media))
  /\ SetProgress(done + Len(VideoRows(media)), Len(VideoRows(media)))
  /\ pc' = "video"
  /\ idx' = 4
  /\ probe' = NoProbe
  /\ UNCHANGED <<envVars, conn, disk, features, closeSensitive, outcome,
                 errKind, pre, written, trackless, probed, last, ops>>

\* Stages 5 and 6: one replace_stats_cache call of the video (PassOrder 4..9)
\* or audio (10..13) partitions; the stage's last call is followed by
\* done += 1 and a progress event.
ReplaceStage(here, lastIdx, next) ==
  /\ pc = here
  /\ \E e \in PassEnds(PassData(idx, titles, features)) :
       /\ Replace(PassOrder[idx], PassData(idx, titles, features), e)
       /\ IF e[1] = "ok"
          THEN /\ written' = written + 1
               /\ idx' = idx + 1
               /\ IF idx = lastIdx
                  THEN /\ done' = done + 1
                       /\ SetProgress(done + 1, Len(VideoRows(media)))
                       /\ pc' = next
                  ELSE UNCHANGED <<done, shown, pc>>
               /\ UNCHANGED <<features, closeSensitive, outcome, errKind, pre,
                              trackless,
                              probed>>
          ELSE Fail("persist")
  /\ UNCHANGED <<envVars, probe, last, ops>>

VideoStage == ReplaceStage("video", 9, "audio")

AudioStage == ReplaceStage("audio", 13, "setting")

\* set_setting(key, value): INSERT OR REPLACE, then commit; sqlite can raise
\* at either.
SettingOutcomes == {"ok", "fail_execute", "fail_commit"}

ConnAfterSetting(o, value) ==
  IF o = "fail_execute" THEN conn ELSE [conn EXCEPT !.updated_at = value]

\* Stage 7: set_setting("stats_cache_updated_at", now); the number of the
\* operation stands for the time.
RecordTime ==
  /\ pc = "setting"
  /\ \E o \in (IF faulty THEN SettingOutcomes ELSE {"ok"}) :
       /\ conn' = ConnAfterSetting(o, ops)
       /\ disk' = IF o = "ok" THEN conn' ELSE disk
       /\ IF o = "ok"
          THEN /\ pc' = "done"
               /\ outcome' = "ok"
               /\ closeSensitive' = TRUE
               /\ UNCHANGED <<idx, features, done, shown, errKind, pre, written,
                              trackless,
                              probed>>
          ELSE Fail("persist")
  /\ UNCHANGED <<envVars, probe, last, ops>>

\* The user closes the dialog of a pass that has ended.
CloseDialog ==
  /\ pc = "done"
  /\ pc' = "idle"
  /\ last' = IF outcome = "ok"
             THEN [valid |-> TRUE, features |-> features, cache |-> conn.cache]
             ELSE last
  /\ UNCHANGED <<envVars, conn, disk, idx, features, done, shown,
                 closeSensitive, outcome, errKind, probe, pre, written,
                 trackless, probed, ops>>

\* ------------------------------------------- the store outside of a pass
\* A reader calls get_stats_cache on a partition and gets the rows of
\* GetStatsCache(conn.cache, p); nothing is written.  The modal pass dialog
\* keeps the statistics window from opening while a pass runs.
Query ==
  /\ pc \in {"idle", "done"}
  /\ \E p \in Partitions : GetStatsCache(conn.cache, p) = conn.cache[p]
  /\ UNCHANGED vars

\* The statistics window reads a partition through its accessor
\* (_stats_titles_by_year, _stats_tags, _stats_statuses, _stats_video,
\* _stats_audio) and gets the rows as one of StatsOf(conn.cache, p), every
\* row once; nothing is written.
QueryStats ==
  /\ pc \in {"idle", "done"}
  /\ \E p \in Partitions :
       \E q \in StatsOf(conn.cache, p) : Len(q) = Cardinality(conn.cache[p])
  /\ UNCHANGED vars

\* Arguments of direct replace_stats_cache calls: dicts with counts <= 0.
CallPartitions == {PassOrder[1], PassOrder[6]}

CallData ==
  { << <<Matroska, 2>>, <<Ac3, 0>> >>,
    << <<Ac3, 0 - 1>>, <<Aac, 1>> >> }

\* Database.replace_stats_cache called on its own.
ReplaceStatsCache ==
  /\ pc = "idle"
  /\ ~faulty
  /\ ops < MaxOps
  /\ ops' = ops + 1
  /\ \E p \in CallPartitions, data \in CallData :
       \E e \in ReplaceEnds(data) : Replace(p, data, e)
  /\ UNCHANGED <<envVars, passVars, last>>

\* Database.clear_stats_cache: DELETE FROM stats_cache, then commit; the
\* DELETE or the commit can raise.
ClearOutcomes == {"ok", "fail_delete", "fail_commit"}

ConnAfterClear(o) ==
  IF o = "fail_delete" THEN conn ELSE [conn EXCEPT !.cache = EmptyCache]

ClearStatsCache ==
  /\ pc = "idle"
  /\ ~faulty
  /\ ops < MaxOps
  /\ ops' = ops + 1
  /\ \E o \in ClearOutcomes :
       /\ conn' = ConnAfterClear(o)
       /\ disk' = IF o = "ok" THEN conn' ELSE disk
  /\ UNCHANGED <<envVars, passVars, last>>

\* Database.set_setting for a key of the window (_save_window_settings) and
\* every other Database method that ends in self.conn.commit(): whatever the
\* connection holds uncommitted becomes the file's contents.
SetSetting ==
  /\ pc \in {"idle", "done"}
  /\ disk' = conn
  /\ UNCHANGED <<envVars, conn, passVars, last, ops>>

\* The application is closed without a commit and started again: sqlite
\* drops the open transaction, the new connection sees the file.
Reopen ==
  /\ pc = "idle"
  /\ conn' = disk
  /\ UNCHANGED <<envVars, disk, passVars, last, ops>>

Next ==
  \/ StartPass
  \/ TitlesStage
  \/ TagsStage
  \/ StatusesStage
  \/ Enumerate
  \/ ProbeFile
  \/ FinishProbe
  \/ VideoStage
  \/ AudioStage
  \/ RecordTime
  \/ CloseDialog
  \/ Query
  \/ ReplaceStatsCache
  \/ ClearStatsCache
  \/ SetSetting
  \/ Reopen

Spec == Init /\ [][Next]_vars

\* A step of recalculate_statistics after its start.
PassStep ==
  \/ TitlesStage
  \/ TagsStage
  \/ StatusesStage
  \/ Enumerate
  \/ ProbeFile
  \/ FinishProbe
  \/ VideoStage
  \/ AudioStage
  \/ RecordTime

\* A pass is running: its dialog is open and the pass has not ended.
Running == pc \notin {"idle", "done"}

\* recalculate_statistics is one call on the caller's thread: once started
\* it takes its next step without waiting for the user, every call it makes
\* (the SQL statements, the probe of a file) having returned or raised.
\* This is weak fairness of PassStep, WF_vars(PassStep), written out as
\* []<>~ENABLED <<PassStep>>_vars \/ []<><<PassStep>>_vars with Running for
\* ENABLED <<PassStep>>_vars: a running pass always has a next step (Spec
\* has no deadlock), and every step it takes is a PassStep.
PassFairness == []<>(~Running) \/ []<><<PassStep>>_vars

FairSpec == Spec /\ PassFairness

\* ------------------------------------------------------ editing the catalog
TitleIds == {titles[i].id : i \in 1..Len(titles)}

\* The video rows of the media table.
VideoMedia ==
  {media[i] : i \in {j \in 1..Len(media) : media[j].media_type = "video"}}

\* An edit whose statements also empty stats_cache.
CommittedClearing ==
  /\ conn' = [conn EXCEPT !.cache = EmptyCache]
  /\ disk' = conn'

\* Every edit ends in self.conn.commit(), which also writes what the
\* connection holds uncommitted of stats_cache.
Committed == disk' = conn /\ UNCHANGED conn

\* An edit is made while no pass dialog is open; the latest pass no longer
\* describes the catalog.
EditFrame ==
  /\ pc = "idle"
  /\ ops < MaxOps
  /\ ops' = ops + 1
  /\ last' = NoLast
  /\ UNCHANGED <<faulty, passVars>>

\* Database.add_title: AUTOINCREMENT gives an id never used before.
AddTitle ==
  /\ EditFrame
  /\ sqlite' = [sqlite EXCEPT !.seq_titles = @ + 1]
  /\ titles' = Append(titles,
                      TitleRow(sqlite.seq_titles + 1, Created2021, 0, TagsB,
                               [valid |-> TRUE, obj |-> <<>>]))
  /\ Committed
  /\ UNCHANGED media

\* Database.update_title: UPDATE titles SET ... WHERE id=? with the values
\* of the form.
UpdateTitle ==
  /\ EditFrame
  /\ \E title_id \in TitleIds, year_start \in {0, 2005} :
       titles' = [i \in 1..Len(titles) |->
                    IF titles[i].id = title_id
                    THEN TitleRow(title_id, CreatedBad, year_start, TagsB,
                                  [valid |-> TRUE, obj |-> << <<StFull, TRUE>> >>])
                    ELSE titles[i]]
  /\ Committed
  /\ UNCHANGED <<media, sqlite>>

\* _next_media_order: (MAX(sort_order) or 0) + 1 over the title's media of
\* the type.
NextMediaOrder(title_id, media_type) ==
  LET orders == {media[i].sort_order :
                   i \in {j \in 1..Len(media) :
                            /\ media[j].title_id = title_id
                            /\ media[j].media_type = media_type}}
  IN IF orders = {} THEN 1
     ELSE (CHOOSE m \in orders : \A o \in orders : o <= m) + 1

\* Database.add_media for the title shown in the form.
AddMedia ==
  /\ EditFrame
  /\ \E title_id \in TitleIds, media_type \in {"video", "image"} :
       media' = Append(media,
                       MediaRow(sqlite.seq_media + 1, title_id, media_type,
                                NextMediaOrder(title_id, media_type)))
  /\ sqlite' = [sqlite EXCEPT !.seq_media = @ + 1]
  /\ Committed
  /\ UNCHANGED titles

\* Database.delete_media
DeleteMedia ==
  /\ EditFrame
  /\ \E media_id \in {media[i].id : i \in 1..Len(media)} :
       LET Keep(r) == r.id # media_id
       IN media' = SelectSeq(media, Keep)
  /\ Committed
  /\ UNCHANGED <<titles, sqlite>>

\* Database.delete_title: DELETE FROM titles WHERE id=?; the ON DELETE
\* CASCADE of media.title_id acts only when foreign keys are enforced.
DeleteTitle ==
  /\ EditFrame
  /\ \E title_id \in TitleIds :
       LET KeepTitle(r) == r.id # title_id
           KeepMedia(r) == r.title_id # title_id
       IN /\ titles' = SelectSeq(titles, KeepTitle)
          /\ media' = IF sqlite.foreign_keys
                      THEN SelectSeq(media, KeepMedia) ELSE media
  /\ Committed
  /\ UNCHANGED sqlite

\* list_media(title_id, "video"): ORDER BY sort_order, id
ListVideo(title_id) ==
  OrderedRows({r \in VideoMedia : r.title_id = title_id})

\* The position of id in media_ids (enumerate starts at 0), else keep.
OrderAfter(row, media_ids) ==
  IF \E i \in DOMAIN media_ids : media_ids[i] = row.id
  THEN [row EXCEPT !.sort_order =
          (CHOOSE i \in DOMAIN media_ids : media_ids[i] = row.id) - 1]
  ELSE row

\* Database.update_media_order(media_ids) after a drag in the video list of
\* a title: media_ids are the title's video ids in the order of the list.
UpdateMediaOrder ==
  /\ EditFrame
  /\ \E title_id \in TitleIds :
       /\ ListVideo(title_id) # <<>>
       /\ \E media_ids \in Perms({r.id : r \in {m \in VideoMedia : m.title_id = title_id}}) :
            media' = [i \in 1..Len(media) |-> OrderAfter(media[i], media_ids)]
  /\ Committed
  /\ UNCHANGED <<titles, sqlite>>

\* A session that edits the catalog and recomputes; nothing raises.
EditInit ==
  /\ \E c \in Catalogs :
       /\ titles = c.titles
       /\ media = c.media
       /\ sqlite \in [foreign_keys : BOOLEAN, seq_titles : {Len(c.titles)},
                       seq_media : {Len(c.media)}]
  /\ faulty = FALSE
  /\ conn = [cache |-> EmptyCache, updated_at |-> 0]
  /\ disk = conn
  /\ pc = "idle"
  /\ idx = 0
  /\ features = <<>>
  /\ done = 0
  /\ shown = <<0, TotalSteps, 0>>
  /\ closeSensitive = TRUE
  /\ outcome = "none"
  /\ errKind = "none"
  /\ probe = NoProbe
  /\ pre = EmptyCache
  /\ written = 0
  /\ trackless = {}
  /\ probed = <<>>
  /\ last = NoLast
  /\ ops = 0

EditNext ==
  \/ AddTitle
  \/ AddMedia
  \/ DeleteMedia
  \/ DeleteTitle
  \/ UpdateMediaOrder
  \/ StartPass
  \/ TitlesStage
  \/ TagsStage
  \/ StatusesStage
  \/ Enumerate
  \/ ProbeFile
  \/ FinishProbe
  \/ VideoStage
  \/ AudioStage
  \/ RecordTime
  \/ CloseDialog

EditSpec == EditInit /\ [][EditNext]_vars

\* A session that also edits titles, saves settings, opens the statistics
\* window and clears the cache.
FrameNext ==
  \/ EditNext
  \/ UpdateTitle
  \/ QueryStats
  \/ SetSetting
  \/ ClearStatsCache

FrameSpec == EditInit /\ [][FrameNext]_vars

\* ------------------------------------------- the aggregator on its own
\* Most feature items of a list handed to the aggregator.
MaxFiles == 3

\* The feature records _video_feature gives for the four kinds of file.
FeatureRecords ==
  {VideoFeature(t) : t \in {TracksFull, TracksMute, TracksOdd, <<>>}}

\* The features lists the loop over rows can build for at most MaxFiles
\* video files of titles 1 and 2: the rows come ordered by title_id.
FeatureLists ==
  UNION { { f \in [1..n -> [title_id : {1, 2}, rec : FeatureRecords]] :
              \A i \in 1..(n - 1) : f[i].title_id <= f[i + 1].title_id }
          : n \in 0..MaxFiles }

\* A pass that has reached stage 5 with a features list of FeatureLists:
\* the catalog partitions are replaced, every file is probed.
AggInit ==
  /\ \E f \in FeatureLists :
       /\ features = [i \in 1..Len(f) |-> [title_id |-> f[i].title_id] @@ f[i].rec]
       /\ media = [i \in 1..Len(f) |-> MediaRow(i, f[i].title_id, "video", i)]
       /\ trackless = {i \in 1..Len(f) : f[i].rec = VideoFeature(<<>>)}
       /\ probed = [i \in 1..Len(f) |-> i]
  /\ \E c \in Catalogs : Len(c.titles) = 3 /\ titles = c.titles
  /\ sqlite = [foreign_keys |-> FALSE, seq_titles |-> 3, seq_media |-> Len(media)]
  /\ faulty = FALSE
  /\ conn = [cache |->
               [p \in Partitions |->
                  IF p[1] \in {"video", "audio"} THEN {}
                  ELSE RowSet(PassData(CHOOSE i \in 1..3 : PassOrder[i] = p,
                                       titles, <<>>))],
             updated_at |-> 0]
  /\ disk = conn
  /\ pc = "video"
  /\ idx = 4
  /\ done = 3 + Len(media)
  /\ shown = <<3 + Len(media), TotalSteps + Len(media), 4 + Len(media)>>
  /\ closeSensitive = FALSE
  /\ outcome = "none"
  /\ errKind = "none"
  /\ probe = NoProbe
  /\ pre = EmptyCache
  /\ written = 3
  /\ last = NoLast
  /\ ops = 1

AggNext ==
  \/ VideoStage
  \/ AudioStage
  \/ RecordTime
  \/ CloseDialog
  \/ QueryStats
  \/ ClearStatsCache

AggSpec == AggInit /\ [][AggNext]_vars

\* ------------------------------------------- the feature extractor on its own
\* Most tracks of a probed file.
MaxTracks == 2

\* The track dicts get_details can return: a type, a format, and for a
\* video track a width and a height, each of them possibly empty.
TrackChoices ==
  {Track("Video", f, w, h) :
     f \in {<<>>, Avc, Hevc}, w \in {<<>>, Str(7)}, h \in {<<>>, Str(8)}}
  \cup {Track("General", f, <<>>, <<>>) : f \in {<<>>, Matroska, Mpeg4}}
  \cup {Track("Audio", f, <<>>, <<>>) : f \in {<<>>, Aac, Ac3}}

TrackLists == UNION {[1..n -> TrackChoices] : n \in 0..MaxTracks}

\* A pass over a library of one video file that has reached the loop over
\* the rows.
FeatureInit ==
  /\ \E c \in Catalogs : Len(c.titles) = 3 /\ titles = c.titles
  /\ media = <<MediaRow(1, 1, "video", 1)>>
  /\ sqlite = [foreign_keys |-> FALSE, seq_titles |-> 3, seq_media |-> 1]
  /\ faulty = FALSE
  /\ conn = [cache |->
               [p \in Partitions |->
                  IF p[1] \in {"video", "audio"} THEN {}
                  ELSE RowSet(PassData(CHOOSE i \in 1..3 : PassOrder[i] = p,
                                       titles, <<>>))],
             updated_at |-> 0]
  /\ disk = conn
  /\ pc = "probe"
  /\ idx = 0
  /\ features = <<>>
  /\ done = 3
  /\ shown = <<3, TotalSteps, 4>>
  /\ closeSensitive = FALSE
  /\ outcome = "none"
  /\ errKind = "none"
  /\ probe = NoProbe
  /\ pre = EmptyCache
  /\ written = 3
  /\ trackless = {}
  /\ probed = <<>>
  /\ last = NoLast
  /\ ops = 1

\* One turn of the loop over rows, get_details having returned a track
\* list of TrackLists: _video_feature(row["path"]), then a progress event.
ExtractFeature ==
  /\ pc = "probe"
  /\ idx < Len(VideoRows(media))
  /\ \E tracks \in TrackLists :
       LET row == VideoRows(media)[idx + 1]
           total_video == Len(VideoRows(media))
       IN /\ probe' = [called |-> TRUE, isdir |-> FALSE, libInvoked |-> TRUE,
                       cliInvoked |-> FALSE, raised |-> FALSE,
                       tracks |-> tracks]
          /\ features' =
               Append(features, [title_id |-> row.title_id] @@ VideoFeature(tracks))
          /\ idx' = idx + 1
          /\ trackless' = IF tracks = <<>> THEN trackless \cup {idx + 1}
                          ELSE trackless
          /\ probed' = Append(probed, row.id)
          /\ SetProgress(done + idx + 1, total_video)
  /\ UNCHANGED <<pc, done, closeSensitive, outcome, errKind, pre, written>>
  /\ UNCHANGED <<envVars, conn, disk, last, ops>>

FeatureNext == ExtractFeature \/ FinishProbe

FeatureSpec == FeatureInit /\ [][FeatureNext]_vars

\* ------------------------------------------------- the prober on its own
\* A pass over a library of three video files that has reached the loop
\* over the rows, in an environment where the probe of a file can raise.
ProbeInit ==
  /\ \E c \in Catalogs : Len(c.titles) = 3 /\ titles = c.titles
  /\ media = <<MediaRow(1, 1, "video", 1), MediaRow(2, 2, "video", 1),
               MediaRow(3, 2, "video", 2)>>
  /\ sqlite = [foreign_keys |-> FALSE, seq_titles |-> 3, seq_media |-> 3]
  /\ faulty = TRUE
  /\ conn = [cache |->
               [p \in Partitions |->
                  IF p[1] \in {"video", "audio"} THEN {}
                  ELSE RowSet(PassData(CHOOSE i \in 1..3 : PassOrder[i] = p,
                                       titles, <<>>))],
             updated_at |-> 0]
  /\ disk = conn
  /\ pc = "probe"
  /\ idx = 0
  /\ features = <<>>
  /\ done = 3
  /\ shown = <<3, TotalSteps, 4>>
  /\ closeSensitive = FALSE
  /\ outcome = "none"
  /\ errKind = "none"
  /\ probe = NoProbe
  /\ pre = EmptyCache
  /\ written = 3
  /\ trackless = {}
  /\ probed = <<>>
  /\ last = NoLast
  /\ ops = 1

ProbeNext == ProbeFileTraced \/ FinishProbe

ProbeSpec == ProbeInit /\ [][ProbeNext]_vars

\* ============================================================ properties
\* The buckets of data with a count > 0, as rows.
PositiveRows(data) ==
  {[bucket |-> data[i][1], value |-> data[i][2]] :
     i \in {j \in 1..Len(data) : data[j][2] > 0}}

\* What the pass computes for PassOrder[i] from the catalog and its features.
Computed(i) == PassData(i, titles, features)

PassIndex == 1..Len(PassOrder)

Buckets(rows) == {r.bucket : r \in rows}

\* C1: after a pass that completed, every partition the pass writes holds
\* exactly the buckets with count > 0 that the pass computed, with their
\* counts, in the connection's view and in the file.
C1_PassExact ==
  (pc = "done" /\ outcome = "ok") =>
    \A i \in PassIndex :
      /\ conn.cache[PassOrder[i]] = PositiveRows(Computed(i))
      /\ disk.cache[PassOrder[i]] = PositiveRows(Computed(i))

\* A completed pass has replaced a partition that held a bucket the pass
\* did not compute, by a non-empty set of rows.
C1_Witness ==
  /\ pc = "done"
  /\ outcome = "ok"
  /\ \E p \in Partitions :
       /\ conn.cache[p] # {}
       /\ Buckets(pre[p]) \ Buckets(conn.cache[p]) # {}

\* C2: no row of stats_cache has a value <= 0, in the connection's view or
\* in the file, whatever replace, clear and pass operations have run.
C2_NoZeroRows ==
  \A p \in Partitions :
    \A r \in conn.cache[p] \cup disk.cache[p] : r.value > 0

\* A direct replace_stats_cache call whose dict held a count <= 0 has
\* stored the dict's other entry alone.
C2_Witness ==
  /\ ~faulty
  /\ \E p \in CallPartitions, data \in CallData :
       /\ \E i \in 1..Len(data) : data[i][2] <= 0
       /\ conn.cache[p] = PositiveRows(data)
       /\ disk.cache[p] = PositiveRows(data)

\* C3 (as claimed): once a pass has ended, a reader of any partition gets
\* either what the partition held before the pass replaced it or the
\* complete rows the pass computed for it.
C3_ReaderSeesPreOrPost ==
  pc = "done" =>
    \A i \in PassIndex :
      \/ GetStatsCache(conn.cache, PassOrder[i]) = pre[PassOrder[i]]
      \/ GetStatsCache(conn.cache, PassOrder[i]) = PositiveRows(Computed(i))

\* C4 (as claimed): after a failed pass every partition the pass did not
\* replace successfully reads as it did before the pass, also once a later
\* commit on the connection has reached the file.
C4_FailedPassKeepsOld ==
  (pc = "done" /\ outcome = "error") =>
    \A i \in PassIndex :
      i > written => GetStatsCache(conn.cache, PassOrder[i]) = pre[PassOrder[i]]

\* C5: after a failed pass every partition replaced before the failure
\* holds the rows the pass computed, in the connection's view and in the
\* file (nothing is rolled back).
C5_FailedPassKeepsNew ==
  (pc = "done" /\ outcome = "error") =>
    \A i \in PassIndex :
      i <= written =>
        /\ conn.cache[PassOrder[i]] = PositiveRows(Computed(i))
        /\ disk.cache[PassOrder[i]] = PositiveRows(Computed(i))

\* A failed pass has left a partition with new contents next to a later,
\* non-empty partition of the older pass.
C5_Witness ==
  /\ pc = "done"
  /\ outcome = "error"
  /\ \E i, j \in PassIndex :
       /\ i <= written
       /\ conn.cache[PassOrder[i]] # pre[PassOrder[i]]
       /\ j > written + 1
       /\ conn.cache[PassOrder[j]] = pre[PassOrder[j]]
       /\ pre[PassOrder[j]] # {}

\* C6 (as claimed): a pass ended by a catalog read error has left every
\* partition as it was before the pass.
C6_CatalogFailureTouchesNothing ==
  (pc = "done" /\ errKind = "catalog") =>
    \A p \in Partitions : conn.cache[p] = pre[p]

\* C6 (amended): a pass ended by a catalog read error has replaced the
\* partitions of the stages before the failing read, which hold what the
\* pass computed, and has left the partition of the failing stage and of
\* every later stage as the connection saw it before the pass; a failure of
\* the first read (titles by year) leaves every partition as it was.
C6_CatalogFailureKeepsLaterStages ==
  (pc = "done" /\ errKind = "catalog") =>
    /\ written <= 3
    /\ \A i \in PassIndex :
         /\ i > written => conn.cache[PassOrder[i]] = pre[PassOrder[i]]
         /\ i <= written => conn.cache[PassOrder[i]] = PositiveRows(Computed(i))

\* A catalog read failed after an earlier stage had changed its partition.
C6_Witness ==
  /\ pc = "done"
  /\ errKind = "catalog"
  /\ written >= 1
  /\ conn.cache[PassOrder[1]] # pre[PassOrder[1]]
  /\ pre[PassOrder[4]] # {}

\* C7 (as claimed): get_details never raises, and no pass is ended by a
\* probe.
C7_ProbeNeverRaises == ~probe.raised /\ errKind # "probe"

\* The value of a bucket in the connection's view of a partition, 0 when
\* the partition has no such row.
BucketCount(p, b) ==
  IF b \in Buckets(conn.cache[p])
  THEN (CHOOSE r \in conn.cache[p] : r.bucket = b).value
  ELSE 0

\* The files of the pass whose feature for the partition's metric is b.
FilesWith(p, b) ==
  {k \in 1..Len(features) : Metric(features[k], FeatureMetric(p)) = b}

\* The all-files partitions of the five metrics.
AllFiles == {p \in Partitions : p[1] \in {"video", "audio"} /\ p[3]}

TracklessBucket(p) == IF p[2] = "track_count" THEN Str(0) ELSE Unknown

C9_DirectoryNotProbed ==
  (probe.called /\ probe.isdir) =>
    /\ ~probe.libInvoked
    /\ ~probe.cliInvoked
    /\ ~probe.raised
    /\ probe.tracks = <<>>

\* C10: a completed pass over the same catalog whose probes gave the
\* features of the previous completed pass leaves every partition as that
\* pass left it.
C10_RerunSame ==
  (pc = "done" /\ outcome = "ok" /\ last.valid /\ features = last.features) =>
    conn.cache = last.cache

\* A second completed pass with the same, non-empty features as the first.
C10_Witness ==
  /\ pc = "done"
  /\ outcome = "ok"
  /\ last.valid
  /\ features = last.features
  /\ features # <<>>
  /\ conn.cache = last.cache

\* The sum of the counts of a set of rows.
RECURSIVE SumValues(_)
SumValues(rows) ==
  IF rows = {} THEN 0
  ELSE LET r == CHOOSE r \in rows : TRUE
       IN r.value + SumValues(rows \ {r})

\* C11: after a completed pass, the counts of the all-files partition of
\* each video and audio metric add up to the number of video media rows.
C11_AllFilesSum ==
  (pc = "done" /\ outcome = "ok") =>
    \A p \in AllFiles : SumValues(conn.cache[p]) = Cardinality(VideoMedia)

\* A completed pass over two video files with the same features has left
\* all-files partitions with one bucket of count 2.
C11_Witness ==
  /\ pc = "done"
  /\ outcome = "ok"
  /\ Cardinality(VideoMedia) = 2
  /\ \A p \in AllFiles : \E r \in conn.cache[p] : r.value = 2

\* The per-title partitions of the five metrics.
PerTitle == {p \in Partitions : p[1] \in {"video", "audio"} /\ ~p[3]}

\* The titles of the catalog that own a video file.
TitlesWithVideo == {t \in TitleIds : \E r \in VideoMedia : r.title_id = t}

\* C12 (as claimed): after a completed pass that follows any edits of the
\* catalog, the counts of the per-title partition of each video and audio
\* metric add up to the number of titles of the catalog that own a video
\* file.
C12_PerTitleSum ==
  (pc = "done" /\ outcome = "ok") =>
    \A p \in PerTitle : SumValues(conn.cache[p]) = Cardinality(TitlesWithVideo)

\* The titles that have an item in the features list of the pass.
FeatureTitles == {features[k].title_id : k \in 1..Len(features)}

\* How many files of title t have value v for the metric.
Tally(t, metric, v) ==
  Cardinality({k \in 1..Len(features) :
                 features[k].title_id = t /\ Metric(features[k], metric) = v})

\* The values of title t with the title's largest tally.
Tied(t, metric) ==
  LET values == {Metric(features[k], metric) :
                   k \in {j \in 1..Len(features) : features[j].title_id = t}}
  IN {v \in values : \A u \in values : Tally(t, metric, u) <= Tally(t, metric, v)}

\* width * height of the resolutions of the files above; -1 for a value
\* without "x" or with a part that is no number.
Pixels(v) ==
  CASE v = Str(1920) \o <<"x">> \o Str(1080) -> 2073600
    [] v = Str(1280) \o <<"x">> \o Str(720) -> 921600
    [] OTHER -> 0 - 1

\* The rows that count, for each value, the titles voting for it.
VoteRows(vote) ==
  {[bucket |-> v, value |-> Cardinality({t \in FeatureTitles : vote[t] = v})] :
     v \in {vote[t] : t \in FeatureTitles}}

\* The stages of the pass at which partition PassOrder[i] has been replaced.
Replaced(i) == pc \in {"video", "audio", "setting", "done"} /\ written >= i

\* C13: once the per-title resolution partition is replaced, it counts one
\* vote per title, each vote a value of the title's largest tally that has
\* the most pixels among the values of that tally.
C13_ResolutionTieBreak ==
  Replaced(5) =>
    \E vote \in [FeatureTitles -> {features[k].resolution : k \in 1..Len(features)}] :
      /\ \A t \in FeatureTitles :
           /\ vote[t] \in Tied(t, "resolution")
           /\ \A u \in Tied(t, "resolution") : Pixels(u) <= Pixels(vote[t])
      /\ conn.cache[PassOrder[5]] = VoteRows(vote)

\* A title whose first file is 1280x720 and whose second is 1920x1080 has
\* voted 1920x1080, and a title with two files without resolution and one
\* of 1920x1080 has voted for the sentinel.
C13_Witness ==
  /\ Replaced(5)
  /\ \/ /\ Len(features) = 2
        /\ features[1].title_id = features[2].title_id
        /\ Pixels(features[1].resolution) = 921600
        /\ Pixels(features[2].resolution) = 2073600
        /\ conn.cache[PassOrder[5]] = {[bucket |-> features[2].resolution, value |-> 1]}
     \/ /\ Len(features) = 3
        /\ FeatureTitles = {1}
        /\ Pixels(features[1].resolution) = 2073600
        /\ features[2].resolution = Unknown
        /\ features[3].resolution = Unknown
        /\ conn.cache[PassOrder[5]] = {[bucket |-> Unknown, value |-> 1]}

\* File q stands before file r in the video list of their title.
DisplayedBefore(q, r) ==
  /\ q.title_id = r.title_id
  /\ \/ q.sort_order < r.sort_order
     \/ q.sort_order = r.sort_order /\ q.id < r.id

\* The feature item the pass built from the probe of video row r.
FeatureOf(r) == features[CHOOSE k \in 1..Len(probed) : probed[k] = r.id]

\* The value of the first file in the list of title t whose value has the
\* title's largest tally.
FirstTied(t, metric) ==
  LET tied == {r \in VideoMedia :
                 r.title_id = t /\ Metric(FeatureOf(r), metric) \in Tied(t, metric)}
      first == CHOOSE r \in tied : \A q \in tied : ~DisplayedBefore(q, r)
  IN Metric(FeatureOf(first), metric)

\* C14: once a per-title partition of a metric other than resolution is
\* replaced, it counts one vote per title, the vote being the value of the
\* largest tally that stands first in the title's list of video files
\* (sort_order, then id) as the media table holds it during the pass.
C14_FirstInFileOrder ==
  \A i \in {7, 9, 11, 13} :
    Replaced(i) =>
      conn.cache[PassOrder[i]] =
        VoteRows([t \in FeatureTitles |-> FirstTied(t, FeatureMetric(PassOrder[i]))])

\* After update_media_order has put file 1 before file 2 of a title, a
\* pass that found different codecs of equal tally in the two files has
\* counted the title's vote for the codec of file 1.
C14_Witness ==
  /\ Replaced(7)
  /\ \E q, r \in VideoMedia :
       /\ q.id = 1 /\ q.sort_order = 0
       /\ r.id = 2 /\ r.sort_order = 1
       /\ q.title_id = r.title_id
       /\ FeatureOf(q).codec # FeatureOf(r).codec
       /\ conn.cache[PassOrder[7]] = {[bucket |-> FeatureOf(q).codec, value |-> 1]}

\* The video and audio partitions by their place in PassOrder.
FeatureIndex == 4..Len(PassOrder)

\* C15 (as claimed): the dict the aggregator returns for a partition, in
\* either mode, lists its buckets by count descending and buckets of equal
\* count by case-insensitive name.
C15_SortedByCountThenName ==
  \A i \in FeatureIndex :
    Replaced(i) =>
      LET r == Computed(i)
      IN \A j, k \in 1..Len(r) :
           j < k =>
             \/ r[j][2] > r[k][2]
             \/ r[j][2] = r[k][2] /\ ~NoCaseLess(r[k][1], r[j][1])

\* The value title t votes for.
TitleVote(t, metric) ==
  Choice(features, metric, t, DictGet(Grouped(features, metric, <<>>), t, <<>>))

\* What the k-th feature item adds a count to in the result for
\* PassOrder[i]: its own value in all-files mode, the vote of its title in
\* per-title mode.
CountedAt(i, k) ==
  IF PassOrder[i][3]
  THEN Metric(features[k], FeatureMetric(PassOrder[i]))
  ELSE TitleVote(features[k].title_id, FeatureMetric(PassOrder[i]))

\* The first item that counts for bucket b.
FirstCounted(i, b) ==
  CHOOSE k \in 1..Len(features) :
    CountedAt(i, k) = b /\ \A j \in 1..(k - 1) : CountedAt(i, j) # b

\* C15 (amended): the dict the aggregator returns for a partition, in
\* either mode, lists its buckets by count descending, and buckets of equal
\* count in the order in which they were first counted (the order of the
\* features list, for the per-title mode the order of the titles' votes),
\* whatever their names.
C15_SortedByCountThenFirstSeen ==
  \A i \in FeatureIndex :
    Replaced(i) =>
      LET r == Computed(i)
      IN \A j, k \in 1..Len(r) :
           j < k =>
             \/ r[j][2] > r[k][2]
             \/ /\ r[j][2] = r[k][2]
                /\ FirstCounted(i, r[j][1]) < FirstCounted(i, r[k][1])

\* A result with two buckets of equal count whose names stand against the
\* case-insensitive order, and a result whose first bucket was not counted
\* first.
C15_Witness ==
  \/ \E i \in FeatureIndex :
       /\ Replaced(i)
       /\ Len(Computed(i)) >= 2
       /\ Computed(i)[1][2] = Computed(i)[2][2]
       /\ NoCaseLess(Computed(i)[2][1], Computed(i)[1][1])
  \/ \E i \in FeatureIndex :
       /\ Replaced(i)
       /\ Len(Computed(i)) >= 2
       /\ Computed(i)[1][2] > Computed(i)[2][2]
       /\ FirstCounted(i, Computed(i)[2][1]) < FirstCounted(i, Computed(i)[1][1])

\* The lower case of the upper case letters of ASCII.
UpperCase == << "A", "B", "C", "D", "E", "F", "G", "H", "I", "J", "K", "L", "M",
               "N", "O", "P", "Q", "R", "S", "T", "U", "V", "W", "X", "Y", "Z" >>

LowerCase == << "a", "b", "c", "d", "e", "f", "g", "h", "i", "j", "k", "l", "m",
               "n", "o", "p", "q", "r", "s", "t", "u", "v", "w", "x", "y", "z" >>

\* A name with its ASCII letters in lower case.
Folded(name) ==
  [i \in 1..Len(name) |->
     IF \E j \in 1..26 : UpperCase[j] = name[i]
     THEN LowerCase[CHOOSE j \in 1..26 : UpperCase[j] = name[i]]
     ELSE name[i]]

\* q lists its pairs by count descending and pairs of equal count by name
\* without regard to the case of ASCII letters.
ByCountThenName(q) ==
  \A j, k \in 1..Len(q) :
    j < k =>
      \/ q[j].value > q[k].value
      \/ q[j].value = q[k].value /\ ~StrLess(Folded(q[k].bucket), Folded(q[j].bucket))

\* q lists its pairs by name ascending.
ByName(q) ==
  \A j, k \in 1..Len(q) : j < k => StrLess(q[j].bucket, q[k].bucket)

\* q holds each row of the partition once.
AllRowsOnce(q, rows) ==
  /\ Len(q) = Cardinality(rows)
  /\ {q[j] : j \in 1..Len(q)} = rows

\* C16 (as claimed): while the statistics window can be opened (no pass is
\* running), whatever an accessor returns for a partition lists the
\* partition's pairs by count descending and pairs of equal count by
\* case-insensitive name, and is empty for a partition without rows.
C16_QueriesByCount ==
  pc \in {"idle", "done"} =>
    \A p \in Partitions :
      /\ StatsOf(conn.cache, p) # {}
      /\ \A q \in StatsOf(conn.cache, p) :
           /\ AllRowsOnce(q, conn.cache[p])
           /\ ByCountThenName(q)

\* C16 (amended): while the statistics window can be opened, the accessors
\* of tags, statuses, video and audio return
\* the partition's pairs by count descending, pairs of equal count by name
\* without regard to the case of ASCII letters; the accessor of titles by
\* year returns them by bucket name ascending, whatever the counts; each
\* returns every row of the partition once, so nothing for a partition that
\* was never computed or was cleared.
C16_QueriesOrdered ==
  pc \in {"idle", "done"} =>
    \A p \in Partitions :
      /\ StatsOf(conn.cache, p) # {}
      /\ \A q \in StatsOf(conn.cache, p) :
           /\ AllRowsOnce(q, conn.cache[p])
           /\ IF p[1] = "titles" THEN ByName(q) ELSE ByCountThenName(q)

\* After a completed pass, titles by year holds a later year with the
\* larger count and the all-files container partition two names of equal
\* count that differ in the case of their second letter.
C16_Witness ==
  /\ pc = "done"
  /\ outcome = "ok"
  /\ \E q \in StatsTitlesByYear(conn.cache) :
       Len(q) = 2 /\ q[1].value < q[2].value
  /\ \E q \in StatsVideo(conn.cache, "container", TRUE) :
       /\ Len(q) = 2
       /\ q[1].value = q[2].value
       /\ q[1].bucket = Matroska
       /\ q[2].bucket = Mpeg4

\* A step that makes a progress event of the pass of the event before it.
NextEvent == shown[3] >= 1 /\ shown'[3] = shown[3] + 1

\* C17 (as claimed): every progress event of a pass after the first reports
\* a done value greater than the event before it.
C17_DoneIncreases == [][NextEvent => shown'[1] > shown[1]]_vars

\* C17 (amended): every progress event of a pass after the first reports a
\* done value that is not less than that of the event before it; it is
\* greater except for the event that announces the saving of the video
\* statistics after the loop over the files, which repeats the value of the
\* event before it (that of the last file, or of stage 3 without files).
C17_DoneNeverDecreases ==
  [][NextEvent =>
       /\ shown'[1] >= shown[1]
       /\ shown'[1] = shown[1] => (pc = "probe" /\ pc' = "video")]_vars

\* A completed pass over a library without video files has made its seven
\* events, the last reporting 5 of 7.
C17_Witness ==
  /\ pc = "done"
  /\ outcome = "ok"
  /\ VideoMedia = {}
  /\ shown = <<5, 7, 7>>

\* C18 (as claimed): every progress event of a pass reports the total 7 +
\* the number of video media rows.
C18_SameTotal ==
  pc # "idle" => shown[2] = TotalSteps + Cardinality(VideoMedia)

\* C19: a started pass ends, with every partition replaced and the time
\* recorded or at its first error, and nothing else takes it out of its
\* run; the close button of its dialog is disabled while it runs and
\* enabled once it has ended, after a success and after a failure.
C19_PassRunsToItsEnd ==
  /\ [](Running => ~closeSensitive)
  /\ [](pc = "done" => closeSensitive /\ outcome \in {"ok", "error"})
  /\ [][Running =>
          /\ pc' # "idle"
          /\ pc' = "done" =>
               \/ outcome' = "error"
               \/ outcome' = "ok" /\ pc = "setting" /\ written = Len(PassOrder)]_vars
  /\ (Running ~> pc = "done")

\* A pass ended by a probe that raised has enabled the close button.
C19_Witness ==
  /\ pc = "done"
  /\ outcome = "error"
  /\ errKind = "probe"
  /\ closeSensitive

\* C20: the connection's value of stats_cache_updated_at changes only by
\* the last step of a pass, when every partition holds what the pass
\* computed, or when the application is started again; so a pass that fails
\* before that step leaves the value as it was.
C20_TimeRecordedLast ==
  [][conn'.updated_at # conn.updated_at =>
       \/ /\ pc = "setting"
          /\ written = Len(PassOrder)
          /\ \A i \in PassIndex : conn.cache[PassOrder[i]] = PositiveRows(Computed(i))
       \/ pc = "idle" /\ conn' = disk]_vars

\* A completed pass has recorded its time, and a pass that failed after
\* replacing partitions has left the value of the database file.
C20_Witness ==
  \/ /\ pc = "done"
     /\ outcome = "ok"
     /\ conn.updated_at = ops
     /\ disk.updated_at = ops
     /\ ops >= 1
  \/ /\ pc = "done"
     /\ outcome = "error"
     /\ written >= 4
     /\ written < Len(PassOrder)
     /\ conn.updated_at = 0

\* The pass is at a call of replace_stats_cache.
Replacing == pc \in {"titles", "tags", "statuses", "video", "audio"}

\* C21: the rows of stats_cache the connection sees change only by a
\* replace_stats_cache call of a pass, one whole partition at a time, and by
\* clear_stats_cache; a catalog operation, set_setting and a query write
\* to the file no cache row the connection did not hold already, and a
\* step outside a pass probes no file and extracts no feature.
C21_OnlyPassAndClearWrite ==
  /\ [][conn'.cache # conn.cache =>
          \/ /\ Replacing
             /\ \E p \in Partitions :
                  \A o \in Partitions \ {p} : conn'.cache[o] = conn.cache[o]
          \/ /\ pc = "idle"
             /\ titles' = titles
             /\ media' = media
             /\ conn'.cache = EmptyCache]_vars
  /\ [][disk'.cache # disk.cache => disk'.cache = conn'.cache]_vars
  /\ [][(~Running) /\ (~Running') =>
          (UNCHANGED <<probe, features, probed>>)]_vars

\* Titles and files have been edited after a successful pass and the cache
\* still holds the rows of that pass.
C21_Witness ==
  /\ pc = "idle"
  /\ outcome = "ok"
  /\ ~last.valid
  /\ ops = MaxOps
  /\ \E p \in Partitions : conn.cache[p] # {}
  /\ disk = conn

\* The place of a name in a list of names.
PlaceIn(names, name) == CHOOSE i \in 1..Len(names) : names[i] = name

\* Partition p comes before partition q in the order of categories, then of
\* the metrics of the category, then all-files before per-title.
PartitionBefore(p, q) ==
  LET categories == <<"titles", "tags", "statuses", "video", "audio">>
      metrics == <<"by_year", "all", "resolution", "codec", "container",
                   "track_count">>
  IN \/ PlaceIn(categories, p[1]) < PlaceIn(categories, q[1])
     \/ /\ p[1] = q[1]
        /\ PlaceIn(metrics, p[2]) < PlaceIn(metrics, q[2])
     \/ /\ p[1] = q[1]
        /\ p[2] = q[2]
        /\ p[3] /\ ~q[3]

\* The partitions that come before p in that order.
PartitionsBefore(p) == {q \in Partitions : PartitionBefore(q, p)}

\* C22: the n-th partition a pass replaces and commits is the one with n - 1
\* partitions before it in the order titles/by_year, tags, statuses, video
\* (resolution, codec, container), audio (codec, track_count), all-files
\* before per-title; it gets the rows computed from the catalog and the
\* features list; a video or audio partition is replaced only when the
\* features list has one record per video row of the library, and the list
\* does not change from the first of these replacements to the end of the pass.
C22_FixedOrderOneFeatureList ==
  /\ [][Running /\ written' = written + 1 =>
          \E p \in Partitions :
            /\ Cardinality(PartitionsBefore(p)) = written
            /\ conn'.cache = [conn.cache EXCEPT ![p] = PositiveRows(Computed(written + 1))]
            /\ disk' = conn'
            /\ p[1] \in {"video", "audio"} =>
                 /\ Len(features) = Len(VideoRows(media))
                 /\ probed = [i \in 1..Len(probed) |-> VideoRows(media)[i].id]]_vars
  /\ [][(pc \in {"video", "audio", "setting"}) => features' = features]_vars
  /\ [][Running /\ written' # written => written' = written + 1]_vars

\* A pass over a library of two video files has replaced the last audio
\* partition.
C22_Witness ==
  /\ pc \in {"setting", "done"}
  /\ written = Len(PassOrder)
  /\ Len(features) = 2
  /\ conn.cache[<<"audio", "track_count", FALSE>>] # {}

\* The places of the tracks of a type in a track list.
PlacesOfType(tracks, type) == {i \in 1..Len(tracks) : tracks[i].type = type}

\* A type has a track in the list, and the first of them.
HasType(tracks, type) == PlacesOfType(tracks, type) # {}

FirstOfType(tracks, type) ==
  tracks[CHOOSE i \in PlacesOfType(tracks, type) :
           \A j \in PlacesOfType(tracks, type) : i <= j]

\* The text, or the sentinel for an empty one.
TextOrSentinel(has, text) == IF has /\ text # <<>> THEN text ELSE Unknown

\* C23: the feature record of the file just probed has the format of the
\* first Video track as codec, of the first General track as container, of
\* the first Audio track as audio codec, the number of Audio tracks as
\* audio_track_count, "{width}x{height}" of the first Video track as
\* resolution when both are non-empty, and the sentinel in place of a text
\* that is missing or empty; none of its fields is the empty string.
C23_FeatureFromFirstTracks ==
  (pc = "probe" /\ probe.called) =>
    LET t == probe.tracks
        f == features[Len(features)]
        hasV == HasType(t, "Video")
        v == FirstOfType(t, "Video")
    IN /\ f.codec = TextOrSentinel(hasV, v.format)
       /\ f.container = TextOrSentinel(HasType(t, "General"),
                                       FirstOfType(t, "General").format)
       /\ f.audio_codec = TextOrSentinel(HasType(t, "Audio"),
                                         FirstOfType(t, "Audio").format)
       /\ f.audio_track_count = Str(Cardinality(PlacesOfType(t, "Audio")))
       /\ f.resolution =
            IF hasV /\ v.width # <<>> /\ v.height # <<>>
            THEN v.width \o <<"x">> \o v.height ELSE Unknown
       /\ \A k \in {"resolution", "codec", "container", "audio_codec",
                    "audio_track_count"} : f[k] # <<>>

\* A file with two video tracks was probed: the first has no format and no
\* height, the second has both.
C23_Witness ==
  /\ pc = "probe"
  /\ probe.called
  /\ probe.tracks = <<Track("Video", <<>>, Str(7), <<>>),
                      Track("Video", Hevc, Str(7), Str(8))>>
  /\ features[1].codec = Unknown
  /\ features[1].resolution = Unknown

\* C24 (as claimed): the command-line tool is invoked only after the
\* library was unavailable or its parse failed, never after a parse that
\* succeeded, and when the library and the command-line tool both fail
\* get_details returns an empty track list.
C24_LibraryThenCli ==
  probe.called =>
    /\ probe.cliInvoked => probe.lib \in {"import_error", "parse_error"}
    /\ probe.lib = "ok" => probe.libInvoked /\ ~probe.cliInvoked
    /\ (probe.lib # "ok" /\ probe.cli # "ok") =>
         /\ ~probe.raised
         /\ probe.tracks = <<>>

\* A creation timestamp starts with a year: four digits.
StartsWithYear(created_at) ==
  /\ Len(created_at) >= 4
  /\ \A i \in 1..4 : created_at[i] \in Digits

\* The bucket of a title: the year of its creation timestamp, else its
\* start year, else the sentinel.
YearBucket(row) ==
  IF StartsWithYear(row.created_at) THEN SubSeq(row.created_at, 1, 4)
  ELSE IF row.year_start # 0 THEN Str(row.year_start)
  ELSE Unknown

\* C25: once a pass has replaced titles/by_year, the partition has one row
\* for each bucket that is the year of the creation timestamp, else the
\* start year, else the sentinel, of some title, with the number of these
\* titles as its value, so that the values add up to the number of titles.
C25_EveryTitleInOneYear ==
  (pc # "idle" /\ written >= 1) =>
    LET rows == conn.cache[<<"titles", "by_year", TRUE>>]
        TitlesOf(b) == {i \in 1..Len(titles) : YearBucket(titles[i]) = b}
    IN /\ Buckets(rows) = {YearBucket(titles[i]) : i \in 1..Len(titles)}
       /\ \A r \in rows : r.value = Cardinality(TitlesOf(r.bucket))
       /\ \A r, q \in rows : r.bucket = q.bucket => r = q
       /\ SumValues(rows) = Len(titles)

\* A pass has counted a title by its creation year, one by its start year
\* for a timestamp that is no date, and one without either under the
\* sentinel.
C25_Witness ==
  /\ pc = "done"
  /\ outcome = "ok"
  /\ \E i, j, k \in 1..Len(titles) :
       /\ StartsWithYear(titles[i].created_at)
       /\ titles[j].created_at # <<>>
       /\ ~StartsWithYear(titles[j].created_at)
       /\ titles[j].year_start # 0
       /\ ~StartsWithYear(titles[k].created_at)
       /\ titles[k].year_start = 0
  /\ SumValues(conn.cache[<<"titles", "by_year", TRUE>>]) = 3

\* A step of a pass completes a unit of work: a stage (the step leaves the
\* stage without an error), or the probe of one file in stage 4.  The step
\* from "enum" reads the rows and begins stage 4.
UnitDone ==
  \/ /\ pc \in {"titles", "tags", "statuses", "probe", "video", "audio", "setting"}
     /\ pc' # pc
     /\ outcome' # "error"
  \/ /\ pc = "probe"
     /\ idx' = idx + 1

\* C26 (as claimed): each step of a pass that completes a stage, the stage
\* that records the completion time included, or the probe of a file, ends
\* with a progress event.
C26_EventAfterEachUnit == [][UnitDone => shown'[3] = shown[3] + 1]_vars

\* C27 (as claimed): the last progress event of a pass that completed
\* reports a done value equal to its total.
C27_LastEventFull ==
  (pc = "done" /\ outcome = "ok") => shown[1] = shown[2]

\* C28 (as claimed): every progress event of a pass after the first shows a
\* fraction done/total that is not less than that of the event before it.
C28_FractionNeverDecreases ==
  [][NextEvent => shown'[1] * shown[2] >= shown[1] * shown'[2]]_vars

\* C29: a replace_stats_cache call, made by a pass or on its own, leaves
\* the rows of every partition other than the one it is given as the
\* connection saw them before the call, whether it returns or raises; its
\* commit writes to the file, for these partitions, only rows the
\* connection held already.
C29_ReplaceTouchesOnePartition ==
  [][(ReplaceStatsCache \/ Replacing) =>
       \E p \in (IF Replacing THEN {PassOrder[written + 1]} ELSE CallPartitions) :
         \A o \in Partitions \ {p} :
           /\ conn'.cache[o] = conn.cache[o]
           /\ disk'.cache[o] \in {disk.cache[o], conn.cache[o]}]_vars

\* replace_stats_cache was called on its own for the all-files video codec
\* partition of a cache filled by an earlier session: the partition holds
\* the new rows and the per-title partition of the metric its old ones.
C29_Witness ==
  /\ pc = "idle"
  /\ outcome = "none"
  /\ ops >= 1
  /\ \E data \in CallData :
       conn.cache[<<"video", "codec", TRUE>>] = PositiveRows(data)
  /\ conn.cache[<<"video", "codec", FALSE>>] # {}
  /\ conn.cache[<<"video", "codec", FALSE>>] = OldCache[<<"video", "codec", FALSE>>]
  /\ disk = conn

\* The metrics the pass stores in both scopes.
ScopedMetrics ==
  { <<"video", "resolution">>, <<"video", "codec">>, <<"video", "container">>,
    <<"audio", "codec">>, <<"audio", "track_count">> }

\* C30: after a pass that completed, every bucket of a per-title partition
\* is a bucket of the all-files partition of the same metric, and its
\* per-title count is not greater than its all-files count.
C30_PerTitleWithinAllFiles ==
  (pc = "done" /\ outcome = "ok") =>
    \A m \in ScopedMetrics :
      \A r \in conn.cache[<<m[1], m[2], FALSE>>] :
        \E q \in conn.cache[<<m[1], m[2], TRUE>>] :
          /\ q.bucket = r.bucket
          /\ r.value >= 1
          /\ r.value <= q.value

\* A pass completed over three files of two titles: two files of one title
\* disagree about the video codec, and one codec has fewer titles than
\* files.
C30_Witness ==
  /\ pc = "done"
  /\ outcome = "ok"
  /\ Len(features) = 3
  /\ \E i, j \in 1..Len(features) :
       /\ features[i].title_id = features[j].title_id
       /\ features[i].codec # features[j].codec
  /\ \E r \in conn.cache[<<"video", "codec", FALSE>>] :
       \E q \in conn.cache[<<"video", "codec", TRUE>>] :
         q.bucket = r.bucket /\ r.value < q.value

====
